---- MODULE Spec2Model ----
(***************************************************************************)
(* Multi-tenant voice-agent gateway: signup orchestration                  *)
(* (blueprints/auth.py), the authorization guards (utils/auth_utils.py)    *)
(* and the tenant endpoints (blueprints/tenant.py).                        *)
(*                                                                         *)
(* Every request is served by a worker p.  A step of a worker is one call  *)
(* to an external collaborator (credential provider or tenant directory)   *)
(* together with the local code around it.  The outcome of each external   *)
(* call (data, no data, exception) is chosen by the environment.           *)
(***************************************************************************)
EXTENDS Integers, Sequences, FiniteSets, TLC

(* ------------------------------ bounds --------------------------------- *)
\* Number of requests the model lets the clients send in one behaviour.
MaxRequests == 3

\* Workers serving requests (one request per worker at a time).
Workers == {1, 2}
\* The worker that serves every request when requests arrive one at a time.
Serial == {1}

(* --------------------------- value domains ------------------------------ *)
\* A key absent from the JSON body: data.get(k) is None.
Missing == "<missing>"
\* Python None for ids.
NoId == 0
\* Python None for a session or a token field.
Null == [kind |-> "null"]
\* A request body that is not a JSON object (null, a list, absent, malformed).
NonObject == [kind |-> "nonobject"]

Emails == {"a@x", "b@x"}
Roles == {"owner", "admin", "agent", "viewer"}

\* Python truthiness of data.get(k) for the string-valued keys of a body.
Truthy(v) == v # Missing /\ v # ""

\* An error text, represented by the set of substrings (of those the code
\* searches for) that its lower-cased form contains.
Contains(msg, kw) == kw \in msg

SignUpErrors ==
    { {"already registered"}, {"rate limit"}, {"invalid", "email"},
      {"password", "short"}, {"invalid", "email", "rate limit"}, {} }

DbErrors == { {"row-level security"}, {} }

VARIABLES
    configured,          \* app.supabase_client is not None
    auth_users,          \* credential provider: identity id -> email
    tenants,             \* directory table tenants: id -> row
    tenant_users,        \* directory table tenant_users, in stored order
    tenant_agent_config, \* directory table tenant_agent_config
    phone_numbers,       \* directory table phone_numbers (never written here)
    pc,                  \* worker -> position in the handler it runs
    ep,                  \* worker -> endpoint of its request
    inp,                 \* worker -> the request (headers, body)
    loc,                 \* worker -> local variables of the handler
    calls,               \* worker -> external calls of its request, in order
    writes,              \* worker -> records its request created, in order
    resp,                \* worker -> HTTP response of its request
    nreq                 \* requests sent so far

vars == << configured, auth_users, tenants, tenant_users, tenant_agent_config,
           phone_numbers, pc, ep, inp, loc, calls, writes, resp, nreq >>

dirvars == << tenants, tenant_users, tenant_agent_config, phone_numbers >>

\* Numbers are provisioned outside this code, one for each of the first two
\* tenant ids the directory hands out.
ProvisionedNumbers ==
    << [phone_number |-> "+15550001", tenant_id |-> 1, status |-> "active"],
       [phone_number |-> "+15550002", tenant_id |-> 2, status |-> "active"] >>

NoLoc == [user_id |-> NoId, tenant_id |-> NoId, role |-> "", session |-> Null,
          data |-> NonObject]
NoResp == [status |-> 0]

\* What the provider and the directory hold when the application starts: nothing,
\* or what earlier runs of this application left there (a tenant signed up by
\* user 1, who then invited user 2, an identity left by a failed signup, as viewer).
Stores ==
    { [auth_users |-> << >>, tenants |-> << >>, tenant_users |-> << >>,
       tenant_agent_config |-> << >>],
      [auth_users |-> << "a@x", "b@x" >>,
       tenants |-> << [id |-> 1, name |-> "Acme", status |-> "active"] >>,
       tenant_users |-> << [tenant_id |-> 1, user_id |-> 1, role |-> "owner"],
                           [tenant_id |-> 1, user_id |-> 2, role |-> "viewer"] >>,
       tenant_agent_config |->
           << [tenant_id |-> 1,
               greeting |-> "Thank you for calling. How may I assist you today?",
               tone |-> "professional", retention_days |-> 90] >>] }

\* What three requests leave behind: users 1 and 2 each signed up a tenant, and
\* the owner of tenant 1 invited user 2 as agent.
SharedUserStore ==
    [auth_users |-> << "a@x", "b@x" >>,
     tenants |-> << [id |-> 1, name |-> "Acme", status |-> "active"],
                    [id |-> 2, name |-> "Acme", status |-> "active"] >>,
     tenant_users |-> << [tenant_id |-> 1, user_id |-> 1, role |-> "owner"],
                         [tenant_id |-> 2, user_id |-> 2, role |-> "owner"],
                         [tenant_id |-> 1, user_id |-> 2, role |-> "agent"] >>,
     tenant_agent_config |->
         << [tenant_id |-> 1,
             greeting |-> "Thank you for calling. How may I assist you today?",
             tone |-> "professional", retention_days |-> 90],
            [tenant_id |-> 2,
             greeting |-> "Thank you for calling. How may I assist you today?",
             tone |-> "professional", retention_days |-> 90] >>]

\* The state after construction, over the given stores.
InitFrom(stores) ==
    /\ configured \in BOOLEAN
    /\ \E s \in stores :
        /\ auth_users = s.auth_users
        /\ tenants = s.tenants
        /\ tenant_users = s.tenant_users
        /\ tenant_agent_config = s.tenant_agent_config
    /\ phone_numbers = ProvisionedNumbers
    /\ pc = [p \in Workers |-> "idle"]
    /\ ep = [p \in Workers |-> "none"]
    /\ inp = [p \in Workers |-> NonObject]
    /\ loc = [p \in Workers |-> NoLoc]
    /\ calls = [p \in Workers |-> << >>]
    /\ writes = [p \in Workers |-> << >>]
    /\ resp = [p \in Workers |-> NoResp]
    /\ nreq = 0

Init == InitFrom(Stores)

(* ------------------------- common bookkeeping --------------------------- *)
Free(p) == pc[p] \in {"idle", "done"}

\* A worker takes a new request: its locals and logs start empty.
Accept(p, endpoint, request) ==
    /\ Free(p)
    /\ nreq < MaxRequests
    /\ nreq' = nreq + 1
    /\ ep' = [ep EXCEPT ![p] = endpoint]
    /\ inp' = [inp EXCEPT ![p] = request]

\* return jsonify(...), status
Return(p, r) ==
    /\ pc' = [pc EXCEPT ![p] = "done"]
    /\ resp' = [resp EXCEPT ![p] = r]

Goto(p, label) ==
    /\ pc' = [pc EXCEPT ![p] = label]
    /\ resp' = [resp EXCEPT ![p] = NoResp]

Call(p, name) == calls' = [calls EXCEPT ![p] = Append(@, name)]
Wrote(p, rec) == writes' = [writes EXCEPT ![p] = Append(@, rec)]

Err(status, error) == [status |-> status, error |-> error]

\* handle_errors: any uncaught exception becomes a 500 with the raw text.
Uncaught == Err(500, "uncaught exception")

(* ------------------------------ signup ---------------------------------- *)
SignupBodies ==
    {NonObject} \cup
    [ kind : {"object"},
      email : Emails \cup {Missing, ""},
      password : {"pw", Missing, ""},
      company_name : {"Acme", Missing, ""} ]

\* Classification of a sign_up exception (auth.py 70-104).
ClassifySignUpError(msg) ==
    IF Contains(msg, "already registered")
    THEN Err(400, "Email already registered")
    ELSE IF Contains(msg, "rate limit") \/ Contains(msg, "rate_limit")
    THEN Err(429, "Email rate limit exceeded")
    ELSE IF Contains(msg, "invalid") /\ Contains(msg, "email")
    THEN Err(400, "Invalid email address")
    ELSE IF Contains(msg, "password")
            /\ (Contains(msg, "weak") \/ Contains(msg, "short"))
    THEN Err(400, "Password too weak")
    ELSE Err(400, "Authentication error")

\* auth.py 41-53: read the body, validate the required fields, get the client.
signup_validate(p) ==
    \E data \in SignupBodies :
        /\ Accept(p, "signup", data)
        /\ loc' = [loc EXCEPT ![p] = [NoLoc EXCEPT !.data = data]]
        /\ calls' = [calls EXCEPT ![p] = << >>]
        /\ writes' = [writes EXCEPT ![p] = << >>]
        /\ IF data = NonObject
           THEN Return(p, Uncaught)          \* data.get on a non-dict raises
           ELSE IF ~Truthy(data.email) \/ ~Truthy(data.password)
           THEN Return(p, Err(400, "Email and password are required"))
           ELSE IF ~Truthy(data.company_name)
           THEN Return(p, Err(400, "Company name is required"))
           ELSE IF ~configured
           THEN Return(p, Err(500, "Supabase not configured"))
           ELSE Goto(p, "signup_step1")
        /\ UNCHANGED << configured, auth_users, dirvars >>

Registered(email) == \E i \in 1..Len(auth_users) : auth_users[i] = email

\* auth.py 55-104: step 1, supabase.auth.sign_up.
signup_step1(p) ==
    /\ pc[p] = "signup_step1"
    /\ Call(p, "auth.sign_up")
    /\ LET data == loc[p].data IN
       \/ \* the provider registers the identity, with or without a session
          \E withSession \in BOOLEAN :
            LET uid == Len(auth_users) + 1 IN
            /\ ~Registered(data.email)
            /\ auth_users' = Append(auth_users, data.email)
            /\ Wrote(p, [op |-> "insert", table |-> "auth.users", id |-> uid])
            /\ loc' = [loc EXCEPT ![p].user_id = uid,
                                  ![p].session =
                                      IF withSession
                                      THEN [kind |-> "session",
                                            access_token |-> [kind |-> "access", user |-> uid],
                                            refresh_token |-> [kind |-> "refresh", user |-> uid]]
                                      ELSE Null]
            /\ Goto(p, "signup_step2_rpc")
       \/ \* the provider answers without a user
          /\ Return(p, Err(400, "Failed to create user"))
          /\ UNCHANGED << auth_users, writes, loc >>
       \/ \* the provider raises
          \E msg \in SignUpErrors :
            /\ Registered(data.email) \/ ~Contains(msg, "already registered")
            /\ Return(p, ClassifySignUpError(msg))
            /\ UNCHANGED << auth_users, writes, loc >>
    /\ UNCHANGED << configured, dirvars, ep, inp, nreq >>

\* The row the directory stores for a new tenant.
TenantRow(id, data) == [id |-> id, name |-> data.company_name, status |-> "active"]

\* Mutant: the fallback insert runs whatever the procedure returned.
AfterRpc_AlwaysInsert(hasData) == "signup_step2_insert"

\* auth.py 118-123: where signup goes after the procedure answered
\* (hasData: it returned the id of the tenant it created).
AfterRpc(hasData) == IF hasData THEN "signup_step3" ELSE "signup_step2_insert"

\* auth.py 108-122: step 2, privileged path supabase.rpc('create_tenant').
signup_step2_rpc(p) ==
    /\ pc[p] = "signup_step2_rpc"
    /\ Call(p, "rpc.create_tenant")
    /\ \/ \* the procedure creates the tenant and returns its id
          LET tid == Len(tenants) + 1 IN
          /\ tenants' = Append(tenants, TenantRow(tid, loc[p].data))
          /\ Wrote(p, [op |-> "insert", table |-> "tenants", id |-> tid,
                       via |-> "rpc.create_tenant"])
          /\ loc' = [loc EXCEPT ![p].tenant_id = tid]
          /\ Goto(p, AfterRpc(TRUE))
       \/ \* the procedure raises, or returns no data: fall back
          /\ Goto(p, AfterRpc(FALSE))
          /\ UNCHANGED << tenants, writes, loc >>
    /\ UNCHANGED << configured, auth_users, tenant_users, tenant_agent_config,
                    phone_numbers, ep, inp, nreq >>

\* Classification of a tenant-creation exception (auth.py 144-153).
ClassifyTenantError(msg) ==
    IF Contains(msg, "row-level security") \/ Contains(msg, "42501")
    THEN [status |-> 500, error |-> "Failed to create tenant",
          message |-> "RLS policy blocking tenant creation"]
    ELSE Err(500, "Failed to create tenant: <raw error>")

\* auth.py 123-153: step 2, fallback supabase.table('tenants').insert.
signup_step2_insert(p) ==
    /\ pc[p] = "signup_step2_insert"
    /\ Call(p, "tenants.insert")
    /\ \/ LET tid == Len(tenants) + 1 IN
          /\ tenants' = Append(tenants, TenantRow(tid, loc[p].data))
          /\ Wrote(p, [op |-> "insert", table |-> "tenants", id |-> tid,
                       via |-> "tenants.insert"])
          /\ loc' = [loc EXCEPT ![p].tenant_id = tid]
          /\ Goto(p, "signup_step3")
       \/ \* the insert returns no row
          /\ Return(p, Err(500, "Failed to create tenant"))
          /\ UNCHANGED << tenants, writes, loc >>
       \/ \* the insert raises
          \E msg \in DbErrors :
            /\ Return(p, ClassifyTenantError(msg))
            /\ UNCHANGED << tenants, writes, loc >>
    /\ UNCHANGED << configured, auth_users, tenant_users, tenant_agent_config,
                    phone_numbers, ep, inp, nreq >>

\* Mutant: signup links the user with role admin.
OwnerRow_Admin(tid, uid) == [tenant_id |-> tid, user_id |-> uid, role |-> "admin"]

\* The membership row signup inserts (auth.py 157-161).
OwnerRow(tid, uid) == [tenant_id |-> tid, user_id |-> uid, role |-> "owner"]

\* Mutant: a failed membership insert is swallowed like a failed config insert.
signup_step3_Swallow(p) ==
    /\ pc[p] = "signup_step3"
    /\ Call(p, "tenant_users.insert")
    /\ \/ LET row == [tenant_id |-> loc[p].tenant_id, user_id |-> loc[p].user_id,
                      role |-> "owner"] IN
          /\ tenant_users' = Append(tenant_users, row)
          /\ Wrote(p, [op |-> "insert", table |-> "tenant_users", id |-> Len(tenant_users) + 1])
          /\ Goto(p, "signup_step4")
       \/ /\ Goto(p, "signup_step4")
          /\ UNCHANGED << tenant_users, writes >>
    /\ UNCHANGED << configured, auth_users, tenants, tenant_agent_config,
                    phone_numbers, ep, inp, loc, nreq >>

\* auth.py 155-169: step 3, supabase.table('tenant_users').insert.
signup_step3(p) ==
    /\ pc[p] = "signup_step3"
    /\ Call(p, "tenant_users.insert")
    /\ \/ LET row == OwnerRow(loc[p].tenant_id, loc[p].user_id) IN
          /\ tenant_users' = Append(tenant_users, row)
          /\ Wrote(p, [op |-> "insert", table |-> "tenant_users", id |-> Len(tenant_users) + 1])
          /\ Goto(p, "signup_step4")
       \/ /\ Return(p, Err(500, "Failed to link user to tenant"))
          /\ UNCHANGED << tenant_users, writes >>
       \/ /\ Return(p, Err(500, "Failed to create tenant user: <raw error>"))
          /\ UNCHANGED << tenant_users, writes >>
    /\ UNCHANGED << configured, auth_users, tenants, tenant_agent_config,
                    phone_numbers, ep, inp, loc, nreq >>

\* The default configuration row (auth.py 173-183).
DefaultConfig(tid) ==
    [tenant_id |-> tid,
     greeting |-> "Thank you for calling. How may I assist you today?",
     tone |-> "professional", retention_days |-> 90]

\* The 201 body (auth.py 191-206).
SignupSuccess(l) ==
    [status |-> 201, message |-> "Signup successful",
     user_id |-> l.user_id, user_email |-> l.data.email,
     tenant_id |-> l.tenant_id, tenant_name |-> l.data.company_name,
     tenant_role |-> "owner",
     access_token |-> IF l.session # Null THEN l.session.access_token ELSE Null,
     refresh_token |-> IF l.session # Null THEN l.session.refresh_token ELSE Null]

\* Mutant: a failed default-config insert fails the signup.
AfterConfigFailure_Fatal(l) == Err(500, "Failed to create agent config")

\* What signup answers once the default-config insert has raised (auth.py 187-206).
AfterConfigFailure(l) == SignupSuccess(l)

\* auth.py 171-206: step 4, default agent config, then the 201 response.
signup_step4(p) ==
    /\ pc[p] = "signup_step4"
    /\ Call(p, "tenant_agent_config.insert")
    /\ \/ /\ tenant_agent_config' =
                 Append(tenant_agent_config, DefaultConfig(loc[p].tenant_id))
          /\ Wrote(p, [op |-> "insert", table |-> "tenant_agent_config",
                       id |-> Len(tenant_agent_config) + 1])
          /\ Return(p, SignupSuccess(loc[p]))
       \/ \* the insert raises: logged, not surfaced
          /\ Return(p, AfterConfigFailure(loc[p]))
          /\ UNCHANGED << tenant_agent_config, writes >>
    /\ UNCHANGED << configured, auth_users, tenants, tenant_users,
                    phone_numbers, ep, inp, loc, nreq >>

(* --------------------------- authorization ------------------------------ *)
\* Python None for an error value.
NoError == "<none>"
\* Python truthiness of an error value (None and "" are falsy).
IsError(e) == e # NoError /\ e # ""

\* Raw error texts the credential provider raises for a token it rejects.
RawAuthErrors == {"invalid JWT: token is malformed", "token is expired"}
\* Raw error text of a failing directory call.
RawDbError == "connection reset"

\* Bearer tokens a client may present: one the provider accepts for user u,
\* or one it rejects.
GoodToken(u) == [kind |-> "good", user |-> u]
BadTokens == {[kind |-> "expired"], [kind |-> "garbage"]}
Tokens == {GoodToken(u) : u \in 1..Len(auth_users)} \cup BadTokens

\* The Authorization header of a request.
Headers ==
    {[hdr |-> "absent"], [hdr |-> "basic"]} \cup
    {[hdr |-> "bearer", token |-> t] : t \in Tokens}

\* not auth_header or not auth_header.startswith('Bearer ')
NoBearer(h) == h.hdr # "bearer"

\* supabase.auth.get_user(token): the provider returns the user of a token it
\* accepts; for a token it rejects it returns no user or raises.
get_user(token) ==
    IF token.kind = "good"
    THEN {[user |-> token.user, raised |-> NoError]}
    ELSE {[user |-> NoId, raised |-> NoError]} \cup
         {[user |-> NoId, raised |-> raw] : raw \in RawAuthErrors}

\* auth_utils.py 13-31: the possible results (user_id, error) of verify_token,
\* with whether supabase.auth.get_user was called.
verify_token(token) ==
    IF ~configured
    THEN {[user_id |-> NoId, error |-> "Supabase not configured", called |-> FALSE]}
    ELSE {[user_id |-> IF r.raised = NoError THEN r.user ELSE NoId,
           error |-> IF r.raised # NoError THEN r.raised      \* str(e)
                     ELSE IF r.user = NoId THEN "Invalid token"
                     ELSE NoError,
           called |-> TRUE] : r \in get_user(token)}

\* Mutant: the lookup drops the eq('user_id', user_id) filter.
MembershipsOf_Unfiltered(uid) == 1..Len(tenant_users)

\* Rows of tenant_users with the given user_id.
MembershipsOf(uid) ==
    {i \in 1..Len(tenant_users) : tenant_users[i].user_id = uid}

\* auth_utils.py 34-56: the possible results (tenant_id, role, error) of
\* get_tenant_from_user.  The directory returns the rows in no promised order,
\* so response.data[0] is any of the user's rows.
get_tenant_from_user(uid) ==
    IF ~configured
    THEN {[tenant_id |-> NoId, role |-> "", error |-> "Supabase not configured"]}
    ELSE {[tenant_id |-> NoId, role |-> "", error |-> RawDbError]} \cup
         IF MembershipsOf(uid) = {}
         THEN {[tenant_id |-> NoId, role |-> "",
                error |-> "User not associated with any tenant"]}
         ELSE {[tenant_id |-> tenant_users[i].tenant_id,
                role |-> tenant_users[i].role, error |-> NoError]
               : i \in MembershipsOf(uid)}

\* Endpoints of blueprints/tenant.py behind require_tenant / require_role.
TenantRequired ==
    {"get_tenant_profile", "get_agent_config", "get_phone_numbers",
     "get_tenant_users"}
RoleRequired == {"update_tenant_profile", "update_agent_config", "invite_user"}

\* The required_roles argument of the endpoint's require_role decorator.
required_roles(e) == << "owner", "admin" >>

\* Mutant: the role check is left out.
RoleDenied_Off(e, role) == FALSE

\* role not in required_roles (auth_utils.py 139)
RoleDenied(e, role) ==
    /\ e \in RoleRequired
    /\ \A i \in 1..Len(required_roles(e)) : required_roles(e)[i] # role

\* auth_utils.py 90-99 and 123-132: header check and verify_token.
guard_verify(p) ==
    \E e \in TenantRequired \cup RoleRequired, h \in Headers :
        /\ Accept(p, e, h)
        /\ writes' = [writes EXCEPT ![p] = << >>]
        /\ IF NoBearer(h)
           THEN /\ Return(p, Err(401, "Authorization token required"))
                /\ loc' = [loc EXCEPT ![p] = NoLoc]
                /\ calls' = [calls EXCEPT ![p] = << >>]
           ELSE \E v \in verify_token(h.token) :
                /\ calls' = [calls EXCEPT ![p] =
                                IF v.called THEN << "auth.get_user" >> ELSE << >>]
                /\ loc' = [loc EXCEPT ![p] = [NoLoc EXCEPT !.user_id = v.user_id]]
                /\ IF IsError(v.error)
                   THEN Return(p, Err(401, v.error))
                   ELSE Goto(p, "guard_resolve")
        /\ UNCHANGED << configured, auth_users, dirvars >>

\* auth_utils.py 101-110 and 134-148: get_tenant_from_user, the role check,
\* then the call of the handler with (user_id, tenant_id, role).
guard_resolve(p) ==
    /\ pc[p] = "guard_resolve"
    /\ \E m \in get_tenant_from_user(loc[p].user_id) :
        /\ loc' = [loc EXCEPT ![p].tenant_id = m.tenant_id, ![p].role = m.role]
        /\ IF IsError(m.error)
           THEN /\ Call(p, "tenant_users.select")
                /\ Return(p, Err(404, m.error))
           ELSE IF RoleDenied(ep[p], m.role)
           THEN /\ Call(p, "tenant_users.select")
                /\ Return(p, [status |-> 403,
                              error |-> "Insufficient permissions. Required: ",
                              required |-> required_roles(ep[p])])
           ELSE /\ calls' = [calls EXCEPT ![p] =
                                @ \o << "tenant_users.select", "handler" >>]
                /\ Goto(p, ep[p])
    /\ UNCHANGED << configured, auth_users, dirvars, ep, inp, writes, nreq >>

(* -------------------------- tenant endpoints --------------------------- *)
\* A handler that only reads: one select, answered by `answer', or a 500
\* from handle_errors when the select raises.
ReadHandler(p, name, call, answer) ==
    /\ pc[p] = name
    /\ Call(p, call)
    /\ \/ Return(p, answer)
       \/ Return(p, Uncaught)
    /\ UNCHANGED << configured, auth_users, dirvars, ep, inp, loc, writes, nreq >>

\* tenant.py 25-44
get_tenant_profile(p) ==
    LET rows == SelectSeq(tenants, LAMBDA r : r.id = loc[p].tenant_id) IN
    ReadHandler(p, "get_tenant_profile", "tenants.select",
                IF Len(rows) = 0 THEN Err(404, "Tenant not found")
                ELSE [status |-> 200, tenant |-> rows[1], user_role |-> loc[p].role])

\* tenant.py 77-91
get_agent_config(p) ==
    LET rows == SelectSeq(tenant_agent_config,
                       LAMBDA r : r.tenant_id = loc[p].tenant_id) IN
    ReadHandler(p, "get_agent_config", "tenant_agent_config.select",
                IF Len(rows) = 0 THEN Err(404, "Agent config not found")
                ELSE [status |-> 200, config |-> rows[1]])

\* tenant.py 131-144
get_phone_numbers(p) ==
    LET rows == SelectSeq(phone_numbers, LAMBDA r : r.tenant_id = loc[p].tenant_id) IN
    ReadHandler(p, "get_phone_numbers", "phone_numbers.select",
                [status |-> 200, phone_numbers |-> rows])

\* tenant.py 147-163
get_tenant_users(p) ==
    LET rows == SelectSeq(tenant_users, LAMBDA r : r.tenant_id = loc[p].tenant_id) IN
    ReadHandler(p, "get_tenant_users", "tenant_users.select",
                [status |-> 200, users |-> rows])

\* Bodies of PUT /tenant/profile: an allowed field (name) and a field that is
\* not allowed (id).
ProfileBodies ==
    {NonObject} \cup
    [kind : {"object"}, name : {Missing, "Beta"}, id : {NoId, 1, 2}]

\* Mutant: the update is keyed by the id of the request body when it has one.
ProfileTarget_FromBody(p, data) ==
    IF data.id # NoId THEN data.id ELSE loc[p].tenant_id

\* tenant.py 66: .eq('id', tenant_id), the tenant the guard passed in.
ProfileTarget(p, data) == loc[p].tenant_id

\* tenant.py 47-74
update_tenant_profile(p) ==
    /\ pc[p] = "update_tenant_profile"
    /\ \E data \in ProfileBodies :
        /\ loc' = [loc EXCEPT ![p].data = data]
        /\ IF data = NonObject
           THEN /\ Return(p, Uncaught)        \* data.items() raises
                /\ UNCHANGED << tenants, calls, writes >>
           ELSE IF data.name = Missing        \* update_data is empty
           THEN /\ Return(p, Err(400, "No valid fields to update"))
                /\ UNCHANGED << tenants, calls, writes >>
           ELSE /\ Call(p, "tenants.update")
                /\ \/ LET tid == ProfileTarget(p, data)
                          hit == {i \in 1..Len(tenants) : tenants[i].id = tid}
                      IN
                      /\ tenants' = [i \in 1..Len(tenants) |->
                                        IF i \in hit
                                        THEN [tenants[i] EXCEPT !.name = data.name]
                                        ELSE tenants[i]]
                      /\ IF hit = {}
                         THEN /\ Return(p, Err(500, "Failed to update tenant"))
                              /\ UNCHANGED writes
                         ELSE /\ Return(p, [status |-> 200,
                                            tenant |-> [id |-> tid, name |-> data.name,
                                                        status |-> "active"]])
                              /\ Wrote(p, [op |-> "update", table |-> "tenants",
                                           id |-> tid])
                   \/ /\ Return(p, Uncaught)
                      /\ UNCHANGED << tenants, writes >>
    /\ UNCHANGED << configured, auth_users, tenant_users, tenant_agent_config,
                    phone_numbers, ep, inp, nreq >>

\* Bodies of PUT /tenant/agent-config: an allowed field (greeting) and a field
\* that is not allowed (tenant_id).
ConfigBodies ==
    {NonObject} \cup
    [kind : {"object"}, greeting : {Missing, "Hi"}, tenant_id : {NoId, 1, 2}]

\* tenant.py 94-128
update_agent_config(p) ==
    /\ pc[p] = "update_agent_config"
    /\ \E data \in ConfigBodies :
        /\ loc' = [loc EXCEPT ![p].data = data]
        /\ IF data = NonObject
           THEN /\ Return(p, Uncaught)
                /\ UNCHANGED << tenant_agent_config, calls, writes >>
           ELSE IF data.greeting = Missing
           THEN /\ Return(p, Err(400, "No valid fields to update"))
                /\ UNCHANGED << tenant_agent_config, calls, writes >>
           ELSE /\ Call(p, "tenant_agent_config.update")
                /\ \/ LET tid == loc[p].tenant_id
                          hit == {i \in 1..Len(tenant_agent_config) :
                                    tenant_agent_config[i].tenant_id = tid}
                          new == [i \in 1..Len(tenant_agent_config) |->
                                    IF i \in hit
                                    THEN [tenant_agent_config[i]
                                            EXCEPT !.greeting = data.greeting]
                                    ELSE tenant_agent_config[i]]
                      IN
                      /\ tenant_agent_config' = new
                      /\ IF hit = {}
                         THEN /\ Return(p, Err(500, "Failed to update agent config"))
                              /\ UNCHANGED writes
                         ELSE /\ Return(p, [status |-> 200,
                                            config |-> new[CHOOSE i \in hit :
                                                           \A j \in hit : i <= j]])
                              /\ Wrote(p, [op |-> "update",
                                           table |-> "tenant_agent_config",
                                           id |-> tid])
                   \/ /\ Return(p, Uncaught)
                      /\ UNCHANGED << tenant_agent_config, writes >>
    /\ UNCHANGED << configured, auth_users, tenants, tenant_users,
                    phone_numbers, ep, inp, nreq >>

\* Bodies of POST /tenant/users.  user_id is absent, null or 0 (NoId), the id of
\* an identity, or an id no identity has.
InviteBodies ==
    {NonObject} \cup
    [kind : {"object"}, user_id : 0..(Len(auth_users) + 1),
     role : Roles \cup {Missing, "", "superuser"}]

\* Mutant: the role value is not validated.
InvalidRole_Off(role) == FALSE

\* data['role'] not in ['owner', 'admin', 'agent', 'viewer'] (tenant.py 182)
InvalidRole(role) == role \notin {"owner", "admin", "agent", "viewer"}

\* tenant.py 177-193: validation and the existence check.
invite_user(p) ==
    /\ pc[p] = "invite_user"
    /\ \E data \in InviteBodies :
        /\ loc' = [loc EXCEPT ![p].data = data]
        /\ IF data = NonObject
           THEN /\ Return(p, Uncaught)
                /\ UNCHANGED calls
           ELSE IF data.user_id = NoId \/ ~Truthy(data.role)
           THEN /\ Return(p, Err(400, "user_id and role are required"))
                /\ UNCHANGED calls
           ELSE IF InvalidRole(data.role)
           THEN /\ Return(p, Err(400, "Invalid role"))
                /\ UNCHANGED calls
           ELSE /\ Call(p, "tenant_users.select")
                /\ \/ IF \E i \in 1..Len(tenant_users) :
                            /\ tenant_users[i].tenant_id = loc[p].tenant_id
                            /\ tenant_users[i].user_id = data.user_id
                      THEN Return(p, Err(400, "User already exists in this tenant"))
                      ELSE Goto(p, "invite_insert")
                   \/ Return(p, Uncaught)
    /\ UNCHANGED << configured, auth_users, dirvars, ep, inp, writes, nreq >>

\* The membership row the invite inserts (tenant.py 196-200).
InviteRow(tid, data) ==
    [tenant_id |-> tid, user_id |-> data.user_id, role |-> data.role]

\* tenant.py 195-210: the insert.
invite_insert(p) ==
    /\ pc[p] = "invite_insert"
    /\ Call(p, "tenant_users.insert")
    /\ \/ LET row == InviteRow(loc[p].tenant_id, loc[p].data) IN
          /\ tenant_users' = Append(tenant_users, row)
          /\ Wrote(p, [op |-> "insert", table |-> "tenant_users",
                       id |-> Len(tenant_users) + 1])
          /\ Return(p, [status |-> 201, tenant_user |-> row])
       \/ /\ Return(p, Err(500, "Failed to add user to tenant"))
          /\ UNCHANGED << tenant_users, writes >>
       \/ /\ Return(p, Uncaught)
          /\ UNCHANGED << tenant_users, writes >>
    /\ UNCHANGED << configured, auth_users, tenants, tenant_agent_config,
                    phone_numbers, ep, inp, loc, nreq >>

(* ----------------------- /auth/me and /auth/signout --------------------- *)
\* An error body built from a fixed prefix and the raw text of an exception.
ErrRaw(status, prefix, raw) == [status |-> status, error |-> prefix, raw |-> raw]

\* auth.py 362-381: header check, client, supabase.auth.get_user.
me_verify(p) ==
    \E h \in Headers :
        /\ Accept(p, "get_current_user", h)
        /\ writes' = [writes EXCEPT ![p] = << >>]
        /\ IF NoBearer(h)
           THEN /\ Return(p, Err(401, "Authorization token required"))
                /\ loc' = [loc EXCEPT ![p] = NoLoc]
                /\ calls' = [calls EXCEPT ![p] = << >>]
           ELSE IF ~configured
           THEN /\ Return(p, Err(500, "Supabase not configured"))
                /\ loc' = [loc EXCEPT ![p] = NoLoc]
                /\ calls' = [calls EXCEPT ![p] = << >>]
           ELSE \E r \in get_user(h.token) :
                /\ calls' = [calls EXCEPT ![p] = << "auth.get_user" >>]
                /\ loc' = [loc EXCEPT ![p] = [NoLoc EXCEPT !.user_id = r.user]]
                /\ IF r.raised # NoError
                   THEN Return(p, ErrRaw(401, "Failed to get user info: ", r.raised))
                   ELSE IF r.user = NoId
                   THEN Return(p, Err(401, "Invalid token"))
                   ELSE Goto(p, "me_lookup")
        /\ UNCHANGED << configured, auth_users, dirvars >>

\* auth.py 383-411: the membership of the user, joined with its tenant.
me_lookup(p) ==
    /\ pc[p] = "me_lookup"
    /\ Call(p, "tenant_users.select")
    /\ LET uid == loc[p].user_id IN
       \/ /\ MembershipsOf(uid) = {}
          /\ Return(p, Err(404, "User not associated with any tenant"))
       \/ \E i \in MembershipsOf(uid) :
            LET m == tenant_users[i]
                ts == SelectSeq(tenants, LAMBDA t : t.id = m.tenant_id)
            IN
            IF Len(ts) = 0
            THEN Return(p, ErrRaw(401, "Failed to get user info: ", "TypeError"))
            ELSE Return(p, [status |-> 200, user_id |-> uid,
                            user_email |-> auth_users[uid],
                            tenant_id |-> m.tenant_id, tenant_name |-> ts[1].name,
                            tenant_role |-> m.role, tenant_status |-> ts[1].status])
       \/ Return(p, ErrRaw(401, "Failed to get user info: ", RawDbError))
    /\ UNCHANGED << configured, auth_users, dirvars, ep, inp, loc, writes, nreq >>

\* auth.py 291-312: the header must carry a bearer token; the token itself is
\* not passed to the provider.
signout(p) ==
    \E h \in Headers :
        /\ Accept(p, "signout", h)
        /\ writes' = [writes EXCEPT ![p] = << >>]
        /\ loc' = [loc EXCEPT ![p] = NoLoc]
        /\ IF NoBearer(h)
           THEN /\ Return(p, Err(401, "Authorization token required"))
                /\ calls' = [calls EXCEPT ![p] = << >>]
           ELSE IF ~configured
           THEN /\ Return(p, Err(500, "Supabase not configured"))
                /\ calls' = [calls EXCEPT ![p] = << >>]
           ELSE /\ calls' = [calls EXCEPT ![p] = << "auth.sign_out" >>]
                /\ \/ Return(p, [status |-> 200, message |-> "Sign out successful"])
                   \/ Return(p, ErrRaw(500, "Sign out failed: ", "provider error"))
        /\ UNCHANGED << configured, auth_users, dirvars >>

(* ------------------------------- signin -------------------------------- *)
\* Bodies of POST /auth/signin ("pw" is the password every identity signed up
\* with).
SigninBodies ==
    {NonObject} \cup
    [kind : {"object"}, email : Emails \cup {Missing, ""},
     password : {"pw", "wrong", Missing}]

\* Error texts sign_in_with_password raises, by the substrings they contain.
SignInErrors == { {"invalid", "credentials"}, {} }

\* Classification of a sign_in_with_password exception (auth.py 246-250).
ClassifySignInError(msg) ==
    IF Contains(msg, "invalid") \/ Contains(msg, "credentials")
    THEN Err(401, "Invalid email or password")
    ELSE [status |-> 401, error |-> "Authentication error: ", raw |-> "provider error"]

\* The identity registered for an email.
UserOf(email) == CHOOSE i \in 1..Len(auth_users) : auth_users[i] = email

\* auth.py 223-250: validation, client, supabase.auth.sign_in_with_password.
signin_validate(p) ==
    \E data \in SigninBodies :
        /\ Accept(p, "signin", data)
        /\ writes' = [writes EXCEPT ![p] = << >>]
        /\ IF data = NonObject
           THEN /\ Return(p, Uncaught)
                /\ loc' = [loc EXCEPT ![p] = NoLoc]
                /\ calls' = [calls EXCEPT ![p] = << >>]
           ELSE IF ~Truthy(data.email) \/ ~Truthy(data.password)
           THEN /\ Return(p, Err(400, "Email and password are required"))
                /\ loc' = [loc EXCEPT ![p] = NoLoc]
                /\ calls' = [calls EXCEPT ![p] = << >>]
           ELSE IF ~configured
           THEN /\ Return(p, Err(500, "Supabase not configured"))
                /\ loc' = [loc EXCEPT ![p] = NoLoc]
                /\ calls' = [calls EXCEPT ![p] = << >>]
           ELSE /\ calls' = [calls EXCEPT ![p] = << "auth.sign_in_with_password" >>]
                /\ \/ \* the provider accepts the credentials
                      /\ Registered(data.email) /\ data.password = "pw"
                      /\ LET uid == UserOf(data.email) IN
                         loc' = [loc EXCEPT ![p] =
                                   [NoLoc EXCEPT !.user_id = uid, !.data = data,
                                       !.session =
                                           [kind |-> "session",
                                            access_token |-> [kind |-> "access", user |-> uid],
                                            refresh_token |-> [kind |-> "refresh", user |-> uid]]]]
                      /\ Goto(p, "signin_lookup")
                   \/ \* the provider answers without a user
                      /\ Return(p, Err(401, "Invalid credentials"))
                      /\ loc' = [loc EXCEPT ![p] = NoLoc]
                   \/ \* the provider raises
                      \E msg \in SignInErrors :
                        /\ Return(p, ClassifySignInError(msg))
                        /\ loc' = [loc EXCEPT ![p] = NoLoc]
        /\ UNCHANGED << configured, auth_users, dirvars >>

\* auth.py 252-288: the membership of the user, joined with its tenant.
signin_lookup(p) ==
    /\ pc[p] = "signin_lookup"
    /\ Call(p, "tenant_users.select")
    /\ LET uid == loc[p].user_id IN
       \/ /\ MembershipsOf(uid) = {}
          /\ Return(p, Err(404, "User not associated with any tenant. Please contact support."))
       \/ \E i \in MembershipsOf(uid) :
            LET m == tenant_users[i]
                ts == SelectSeq(tenants, LAMBDA t : t.id = m.tenant_id)
            IN
            IF Len(ts) = 0
            THEN Return(p, ErrRaw(500, "Failed to fetch tenant info: ", "TypeError"))
            ELSE Return(p, [status |-> 200, message |-> "Sign in successful",
                            user_id |-> uid, user_email |-> auth_users[uid],
                            tenant_id |-> m.tenant_id, tenant_name |-> ts[1].name,
                            tenant_role |-> m.role, tenant_status |-> ts[1].status,
                            access_token |-> loc[p].session.access_token,
                            refresh_token |-> loc[p].session.refresh_token])
       \/ Return(p, ErrRaw(500, "Failed to fetch tenant info: ", RawDbError))
    /\ UNCHANGED << configured, auth_users, dirvars, ep, inp, loc, writes, nreq >>

Next ==
    \E p \in Serial :
        \/ signup_validate(p)
        \/ signup_step1(p)
        \/ signup_step2_rpc(p)
        \/ signup_step2_insert(p)
        \/ signup_step3(p)
        \/ signup_step4(p)
        \/ guard_verify(p)
        \/ guard_resolve(p)
        \/ get_tenant_profile(p)
        \/ update_tenant_profile(p)
        \/ get_agent_config(p)
        \/ update_agent_config(p)
        \/ get_phone_numbers(p)
        \/ get_tenant_users(p)
        \/ invite_user(p)
        \/ invite_insert(p)
        \/ me_verify(p)
        \/ me_lookup(p)
        \/ signout(p)
        \/ signin_validate(p)
        \/ signin_lookup(p)

Spec == Init /\ [][Next]_vars

(* Clients that only send GET /tenant/agent-config, served by both workers:     *)
(* no request of such a behaviour writes to the directory.                      *)
InitGets == InitFrom({SharedUserStore}) /\ configured

NextGets ==
    \E p \in Workers :
        \/ guard_verify(p) /\ ep'[p] = "get_agent_config"
        \/ guard_resolve(p)
        \/ get_agent_config(p)

SpecGets == InitGets /\ [][NextGets]_vars

(* Clients that only send POST /tenant/users, served by both workers: the        *)
(* existence check of one request and the insert of another may interleave.     *)
InitInvites == InitFrom({SharedUserStore}) /\ configured

NextInvites ==
    \E p \in Workers :
        \/ guard_verify(p) /\ ep'[p] = "invite_user"
        \/ guard_resolve(p)
        \/ invite_user(p)
        \/ invite_insert(p)

SpecInvites == InitInvites /\ [][NextInvites]_vars

(* ============================== properties ============================== *)
Done(p) == pc[p] = "done"
Has(seq, x) == \E i \in 1..Len(seq) : seq[i] = x
Count(seq, x) == Cardinality({i \in 1..Len(seq) : seq[i] = x})
Last(seq) == seq[Len(seq)]
WritesTo(p, table) == {i \in 1..Len(writes[p]) : writes[p][i].table = table}
SignupDone(p) == Done(p) /\ ep[p] = "signup"

\* A signup body in which a required field is missing or empty.
LacksRequired(data) ==
    \/ data = NonObject
    \/ ~Truthy(data.email) \/ ~Truthy(data.password) \/ ~Truthy(data.company_name)

\* C1: a signup request whose email, password or company_name is missing or
\* empty is answered 400, and no call to the credential provider or to the
\* directory has been made (nothing is created).
C1_ValidationFailsFast ==
    \A p \in Workers :
        SignupDone(p) /\ LacksRequired(inp[p]) =>
            /\ resp[p].status = 400
            /\ calls[p] = << >>
            /\ writes[p] = << >>

\* The part of C1 the code keeps: nothing is called or created, whatever the body.
C1_NoExternalCall ==
    \A p \in Workers :
        SignupDone(p) /\ LacksRequired(inp[p]) =>
            calls[p] = << >> /\ writes[p] = << >>

\* Every record a signup request created is still in its store.
CreatedStillThere(p) ==
    \A i \in 1..Len(writes[p]) :
        LET w == writes[p][i] IN
        /\ w.table = "auth.users" => w.id \in 1..Len(auth_users)
        /\ w.table = "tenants" => \E j \in 1..Len(tenants) : tenants[j].id = w.id
        /\ w.table = "tenant_users" => w.id \in 1..Len(tenant_users)
        /\ w.table = "tenant_agent_config" => w.id \in 1..Len(tenant_agent_config)

Tables(p) == [i \in 1..Len(writes[p]) |-> writes[p][i].table]

\* Step k of a finished signup was attempted and created nothing.
FailedAt(p, call, table) ==
    Done(p) /\ Has(calls[p], call) /\ WritesTo(p, table) = {}

\* C2: a signup that fails at step k answers with an error (400/429 at step 1,
\* 500 at steps 2 and 3) and leaves exactly the records of steps 1..k-1; no
\* record a signup created is ever removed.
C2_PartialFailureLeavesPrefix ==
    \A p \in Workers :
        ep[p] = "signup" =>
            /\ CreatedStillThere(p)
            /\ FailedAt(p, "auth.sign_up", "auth.users") =>
                 /\ resp[p].status \in {400, 429}
                 /\ writes[p] = << >>
                 /\ calls[p] = << "auth.sign_up" >>
            /\ FailedAt(p, "rpc.create_tenant", "tenants") =>
                 /\ resp[p].status = 500
                 /\ Tables(p) = << "auth.users" >>
                 /\ auth_users[loc[p].user_id] = inp[p].email
                 /\ ~Has(calls[p], "tenant_users.insert")
                 /\ ~Has(calls[p], "tenant_agent_config.insert")
            /\ FailedAt(p, "tenant_users.insert", "tenant_users") =>
                 /\ resp[p].status = 500
                 /\ Tables(p) = << "auth.users", "tenants" >>
                 /\ auth_users[loc[p].user_id] = inp[p].email
                 /\ \E j \in 1..Len(tenants) : tenants[j].id = loc[p].tenant_id
                 /\ \A j \in 1..Len(tenant_users) :
                        tenant_users[j].tenant_id # loc[p].tenant_id
                 /\ \A j \in 1..Len(tenant_agent_config) :
                        tenant_agent_config[j].tenant_id # loc[p].tenant_id
                 /\ ~Has(calls[p], "tenant_agent_config.insert")

\* Witness of C2: a signup failed at step 3, leaving an identity and a tenant.
C2_Witness ==
    \E p \in Workers :
        /\ SignupDone(p) /\ resp[p].status = 500
        /\ Tables(p) = << "auth.users", "tenants" >>

\* C3: a 201 from signup carries the identity of step 1, the tenant of step 2
\* and role owner; the directory then holds that tenant and the membership
\* (tenant, user, owner); the session fields are the provider's tokens, or both
\* null when the provider issued no session.
C3_SuccessResponse ==
    \A p \in Workers :
        SignupDone(p) /\ resp[p].status = 201 =>
            /\ Len(writes[p]) >= 3
            /\ writes[p][1].table = "auth.users" /\ writes[p][1].id = resp[p].user_id
            /\ auth_users[resp[p].user_id] = inp[p].email
            /\ resp[p].user_email = inp[p].email
            /\ writes[p][2].table = "tenants" /\ writes[p][2].id = resp[p].tenant_id
            /\ resp[p].tenant_role = "owner"
            /\ \E j \in 1..Len(tenants) : tenants[j].id = resp[p].tenant_id
            /\ \E j \in 1..Len(tenant_users) :
                   tenant_users[j] = [tenant_id |-> resp[p].tenant_id,
                                      user_id |-> resp[p].user_id, role |-> "owner"]
            /\ IF loc[p].session = Null
               THEN resp[p].access_token = Null /\ resp[p].refresh_token = Null
               ELSE /\ resp[p].access_token = loc[p].session.access_token
                    /\ resp[p].refresh_token = loc[p].session.refresh_token
                    /\ resp[p].access_token.user = resp[p].user_id

\* Witness of C3: a successful signup for which the provider issued no session.
C3_Witness ==
    \E p \in Workers :
        SignupDone(p) /\ resp[p].status = 201 /\ resp[p].access_token = Null

\* C4: once steps 1 to 3 succeeded signup answers 201 whether or not the
\* default-config insert succeeds; the insert is tried once, its failure does
\* not show in the response and leaves the tenant without a config row.
C4_ConfigFailureNonFatal ==
    \A p \in Workers :
        SignupDone(p) /\ WritesTo(p, "tenant_users") # {} =>
            /\ resp[p].status = 201
            /\ resp[p] = SignupSuccess(loc[p])
            /\ Count(calls[p], "tenant_agent_config.insert") = 1
            /\ WritesTo(p, "tenant_agent_config") = {} =>
                 \A j \in 1..Len(tenant_agent_config) :
                     tenant_agent_config[j].tenant_id # loc[p].tenant_id

\* Witness of C4: a 201 although the default-config insert failed.
C4_Witness ==
    \E p \in Workers :
        /\ SignupDone(p) /\ resp[p].status = 201
        /\ Has(calls[p], "tenant_agent_config.insert")
        /\ WritesTo(p, "tenant_agent_config") = {}

\* C5: in step 2 the privileged path is tried first; the direct insert is tried
\* only right after the privileged path failed and never after it created the
\* tenant, so a signup creates at most one tenant; when both fail the answer
\* is 500.
C5_FallbackOnlyAfterRpcFailure ==
    \A p \in Workers :
        ep[p] = "signup" =>
            /\ \A i \in 1..Len(calls[p]) :
                   calls[p][i] = "tenants.insert" =>
                       i > 1 /\ calls[p][i - 1] = "rpc.create_tenant"
            /\ Count(calls[p], "rpc.create_tenant") <= 1
            /\ Count(calls[p], "tenants.insert") <= 1
            /\ (\E i \in WritesTo(p, "tenants") :
                    writes[p][i].via = "rpc.create_tenant")
                 => ~Has(calls[p], "tenants.insert")
            /\ Cardinality(WritesTo(p, "tenants")) <= 1
            /\ Done(p) /\ calls[p] # << >> /\ Last(calls[p]) = "tenants.insert" =>
                 resp[p].status = 500 /\ WritesTo(p, "tenants") = {}

\* Witness of C5: the privileged path failed and the direct insert created the
\* tenant.
C5_Witness ==
    \E p \in Workers :
        /\ ep[p] = "signup"
        /\ \E i \in WritesTo(p, "tenants") : writes[p][i].via = "tenants.insert"

Guarded == TenantRequired \cup RoleRequired
\* Every endpoint that requires a bearer token.
Protected == Guarded \cup {"get_current_user", "signout"}

\* The request of worker p carries a token the provider rejects.
RejectedToken(p) ==
    /\ inp[p].hdr = "bearer"
    /\ inp[p].token.kind \in {"expired", "garbage"}

\* C6: on a role-gated endpoint a caller whose resolved role is not owner or
\* admin gets 403 naming the required roles; the handler body does not run and
\* nothing is written; the handler body runs only for owner or admin.
C6_RoleGate ==
    \A p \in Workers :
        ep[p] \in {"update_tenant_profile", "update_agent_config", "invite_user"} =>
            /\ Has(calls[p], "handler") => loc[p].role \in {"owner", "admin"}
            /\ Done(p) /\ loc[p].role \in {"agent", "viewer"} =>
                 /\ resp[p].status = 403
                 /\ resp[p].required = << "owner", "admin" >>
                 /\ calls[p] = << "auth.get_user", "tenant_users.select" >>
                 /\ writes[p] = << >>

\* Witness of C6: a viewer was refused on a role-gated endpoint.
C6_Witness ==
    \E p \in Workers :
        /\ Done(p) /\ ep[p] = "invite_user"
        /\ loc[p].role = "viewer" /\ resp[p].status = 403

C8_RejectedTokenIs401 ==
    \A p \in Workers :
        Done(p) /\ ep[p] \in Protected /\ configured /\ RejectedToken(p) =>
            resp[p].status = 401

\* The part of C8 the code keeps: every protected endpoint but signout.
C8_ExceptSignout ==
    \A p \in Workers :
        Done(p) /\ ep[p] \in Protected \ {"signout"} /\ configured
            /\ RejectedToken(p) => resp[p].status = 401

\* Messages an endpoint may give when the token fails verification.
ClassifiedAuthMessages ==
    {"Authorization token required", "Invalid token", "Supabase not configured"}

\* C9: when token verification fails, the error body holds only a message of a
\* fixed set, whatever text the provider raised.
C9_NoRawErrorInBody ==
    \A p \in Workers :
        Done(p) /\ ep[p] \in Protected /\ RejectedToken(p)
            /\ resp[p].status = 401 =>
                /\ DOMAIN resp[p] = {"status", "error"}
                /\ resp[p].error \in ClassifiedAuthMessages

\* C10: every membership row has one of the four roles: signup writes owner,
\* and an invite with any other role value is answered 400 and writes nothing.
C10_RoleEnumerated ==
    /\ \A j \in 1..Len(tenant_users) :
           tenant_users[j].role \in {"owner", "admin", "agent", "viewer"}
    /\ \A p \in Workers :
        /\ ep[p] = "signup" =>
             \A i \in WritesTo(p, "tenant_users") :
                 tenant_users[writes[p][i].id].role = "owner"
        /\ Done(p) /\ ep[p] = "invite_user" /\ Has(calls[p], "handler")
             /\ loc[p].data # NonObject
             /\ loc[p].data.role \notin {"owner", "admin", "agent", "viewer"} =>
                 resp[p].status = 400 /\ writes[p] = << >>

\* Witness of C10: an invite with an unknown role was refused.
C10_Witness ==
    \E p \in Workers :
        /\ Done(p) /\ ep[p] = "invite_user" /\ Has(calls[p], "handler")
        /\ loc[p].data # NonObject /\ loc[p].data.role = "superuser"
        /\ loc[p].data.user_id # NoId
        /\ resp[p].status = 400

\* C11: every membership row references a tenant of the directory and an
\* identity of the credential provider; an invite never creates a membership
\* for a user_id that no identity has.
C11_MembershipReferencesExist ==
    \A j \in 1..Len(tenant_users) :
        /\ \E t \in 1..Len(tenants) : tenants[t].id = tenant_users[j].tenant_id
        /\ tenant_users[j].user_id \in 1..Len(auth_users)

\* The part of C11 the code keeps: the tenant of every membership row exists.
C11_TenantExists ==
    \A j \in 1..Len(tenant_users) :
        \E t \in 1..Len(tenants) : tenants[t].id = tenant_users[j].tenant_id

\* The credentials of a finished signin were accepted by the provider, and its
\* user holds no membership row.
AcceptedWithoutMembership(p) ==
    /\ Done(p) /\ ep[p] = "signin"
    /\ Has(calls[p], "auth.sign_in_with_password")
    /\ loc[p].user_id # NoId
    /\ \A j \in 1..Len(tenant_users) : tenant_users[j].user_id # loc[p].user_id

\* C12 as stated: a signin with accepted credentials for a user without any
\* membership row is answered 404, without session tokens.
C12_NoMembershipIs404 ==
    \A p \in Workers :
        AcceptedWithoutMembership(p) =>
            /\ resp[p].status = 404
            /\ "access_token" \notin DOMAIN resp[p]
            /\ "refresh_token" \notin DOMAIN resp[p]

\* C12 as amended: the answer is 404, or 500 when the membership lookup itself
\* fails; in both cases it holds no session tokens.
C12_NoMembershipIs404Or500 ==
    \A p \in Workers :
        AcceptedWithoutMembership(p) =>
            /\ \/ resp[p].status = 404
               \/ /\ resp[p].status = 500
                  /\ resp[p].error = "Failed to fetch tenant info: "
            /\ calls[p] = << "auth.sign_in_with_password", "tenant_users.select" >>
            /\ "access_token" \notin DOMAIN resp[p]
            /\ "refresh_token" \notin DOMAIN resp[p]

\* Witness of C12: an identity left by a failed signup signs in and gets 404.
C12_Witness ==
    \E p \in Workers :
        /\ AcceptedWithoutMembership(p) /\ resp[p].status = 404
        /\ \A j \in 1..Len(tenants) : tenants[j].name = "Acme"
        /\ Len(tenant_users) < Len(auth_users)

\* A finished GET /tenant/agent-config whose handler ran.
GetConfigDone(p) ==
    Done(p) /\ ep[p] = "get_agent_config" /\ Has(calls[p], "handler")

\* The part of C13 the code keeps: the request writes nothing, and when the
\* tenant has no config row it answers 404 (500 if the select raises) and
\* creates none.
C13_ReadOnly ==
    \A p \in Workers :
        GetConfigDone(p) =>
            /\ writes[p] = << >>
            /\ (\A j \in 1..Len(tenant_agent_config) :
                    tenant_agent_config[j].tenant_id # loc[p].tenant_id)
                 => resp[p].status \in {404, 500}

\* C13: GET /tenant/agent-config never modifies the directory (404, and no row
\* created, when the tenant has no config), and two such requests of the same
\* caller with no write in between get the same payload.  Compared are the
\* answers of requests whose directory calls all answered.
C13_ReadOnlyAndIdempotent ==
    /\ C13_ReadOnly
    /\ \A p, q \in Workers :
        /\ GetConfigDone(p) /\ GetConfigDone(q)
        /\ inp[p].token = inp[q].token
        /\ resp[p].status # 500 /\ resp[q].status # 500
        => resp[p] = resp[q]

\* An invite of a user the caller's tenant already holds answers 400 and
\* inserts nothing, as long as no other request runs between its check and
\* its answer.
C14_DuplicateInviteRejected ==
    \A p \in Workers :
        /\ Done(p) /\ ep[p] = "invite_user" /\ resp[p].status = 201
        => Len(SelectSeq(tenant_users,
                         LAMBDA r : /\ r.tenant_id = resp[p].tenant_user.tenant_id
                                    /\ r.user_id = resp[p].tenant_user.user_id)) = 1

\* C14: the directory never holds two membership rows of the same
\* (tenant_id, user_id) pair, whatever the interleaving of concurrent invites.
C14_UniqueMembership ==
    \A i, j \in 1..Len(tenant_users) :
        /\ tenant_users[i].tenant_id = tenant_users[j].tenant_id
        /\ tenant_users[i].user_id = tenant_users[j].user_id
        => i = j

\* The user whose token the request of worker p carries, once the guard has
\* let the request through to its handler.
Caller(p) == inp[p].token.user

\* User uid has a membership row in tenant tid.
Member(uid, tid) ==
    \E i \in 1..Len(tenant_users) :
        tenant_users[i].user_id = uid /\ tenant_users[i].tenant_id = tid

\* The positions of a /tenant/* request inside its handler.
HandlerSteps == Guarded \cup {"invite_insert"}

\* The tenant a /tenant/* handler works on is one the caller is a member of,
\* and every row of its answer is a row of that tenant.
C15_ReadsIsolated ==
    \A p \in Workers :
        ep[p] \in Guarded /\ Has(calls[p], "handler") =>
            /\ Member(Caller(p), loc[p].tenant_id)
            /\ Done(p) /\ resp[p].status \in {200, 201} =>
                LET tid == loc[p].tenant_id
                    r == resp[p]
                IN  CASE ep[p] \in {"get_tenant_profile", "update_tenant_profile"} ->
                            r.tenant.id = tid
                      [] ep[p] \in {"get_agent_config", "update_agent_config"} ->
                            r.config.tenant_id = tid
                      [] ep[p] = "get_phone_numbers" ->
                            \A i \in 1..Len(r.phone_numbers) :
                                r.phone_numbers[i].tenant_id = tid
                      [] ep[p] = "get_tenant_users" ->
                            \A i \in 1..Len(r.users) : r.users[i].tenant_id = tid
                      [] ep[p] = "invite_user" ->
                            r.tenant_user.tenant_id = tid

\* A step of a /tenant/* handler changes or adds only rows of a tenant the
\* caller is a member of, whatever the request body says.
C15_WriteStep ==
    \A p \in Workers :
        pc[p] \in HandlerSteps /\ pc'[p] # pc[p] =>
            /\ Len(tenants') = Len(tenants)
            /\ \A i \in 1..Len(tenants) :
                    tenants'[i] # tenants[i] => Member(Caller(p), tenants[i].id)
            /\ Len(tenant_agent_config') = Len(tenant_agent_config)
            /\ \A i \in 1..Len(tenant_agent_config) :
                    tenant_agent_config'[i] # tenant_agent_config[i]
                        => Member(Caller(p), tenant_agent_config[i].tenant_id)
            /\ \A i \in 1..Len(tenant_users') :
                    IF i <= Len(tenant_users)
                    THEN tenant_users'[i] = tenant_users[i]
                    ELSE Member(Caller(p), tenant_users'[i].tenant_id)
            /\ phone_numbers' = phone_numbers

\* C15: every read and write of a /tenant/* handler is restricted to the tenant
\* the guard resolved from the caller's own membership, never to a tenant id of
\* the request body: no request reads or modifies a row of a tenant in which
\* its caller has no membership.
C15_TenantIsolation == []C15_ReadsIsolated /\ [][C15_WriteStep]_vars

\* A profile update whose body names another, existing tenant in which the
\* caller has no membership has succeeded and left that tenant as it was.
C15_Witness ==
    \E p \in Workers :
        /\ Done(p) /\ ep[p] = "update_tenant_profile" /\ resp[p].status = 200
        /\ loc[p].data.id # NoId
        /\ loc[p].data.id # loc[p].tenant_id
        /\ ~Member(Caller(p), loc[p].data.id)
        /\ \E j \in 1..Len(tenants) :
              tenants[j].id = loc[p].data.id /\ tenants[j].name = "Acme"
        /\ \E j \in 1..Len(tenants) :
              tenants[j].id = loc[p].tenant_id /\ tenants[j].name = "Beta"
====
